---- MODULE Spec2Model ----
(***************************************************************************)
(* Model of the Telegram bot client of src/src/lib.rs: the Bot value (its  *)
(* offset and base url), send_request (URL composition, transport, body    *)
(* read, envelope classification), the one-shot methods get_me and         *)
(* get_updates, and the long_poll loop with its caller-supplied handler.   *)
(*                                                                         *)
(* The program is sequential.  A step of the model is the code that runs   *)
(* between two points where it waits for its environment: the HTTP send,   *)
(* the body read, the handler, the client code between two calls.          *)
(***************************************************************************)
EXTENDS Integers, Sequences, FiniteSets

VARIABLES
    url,        \* Bot.url: the base endpoint, set by Bot::new
    offset,     \* Bot.offset
    pc,         \* where the thread that owns the Bot is
    timeout,    \* long_poll's local `timeout` (Some(t)); None outside long_poll
    updates,    \* long_poll: the part of `updates` the for loop has not reached
    cur,        \* long_poll: the update `u` the handler runs with, or None
    req,        \* send_request in progress: method, params, url, stage, and the
                \* arguments of the call that made it; or None.  Its field
                \* steps is history: what send_request has called so far
    ret,        \* the value the last finished top-level call returned, or None;
                \* its field steps is history: what its last send_request called
    polls,      \* history: getUpdates requests this long_poll invocation issued
    reached,    \* history: update_ids the for loop has reached, over the Bot's life
    handled,    \* history: update_ids given to the handler in this invocation
    twice,      \* history: update_ids given to the handler more than once in it
    batchOffset, \* history: Bot.offset when the current batch was received
    batch,      \* history: the batch the running long_poll last received, as
                \* get_updates returned it; <<>> when long_poll has returned
    timeoutArg  \* history: Some(the timeout argument) of the long_poll call
                \* that is running; None when none is

vars == <<url, offset, pc, timeout, updates, cur, req, ret,
          polls, reached, handled, twice, batchOffset, batch, timeoutArg>>

(***************************************************************************)
(* Bounds of the model.                                                    *)
(***************************************************************************)
MaxBatch == 2       \* longest batch one getUpdates answer carries
MaxPolls == 2       \* getUpdates requests of one long_poll invocation

(***************************************************************************)
(* Option<T>: None, Some(x).                                               *)
(***************************************************************************)
None == <<>>
Some(x) == <<x>>

(***************************************************************************)
(* Integer -> String (to_string), as decimal digits with a leading '-'.    *)
(***************************************************************************)
Digits == <<"0", "1", "2", "3", "4", "5", "6", "7", "8", "9">>

RECURSIVE NatToString(_)
NatToString(n) ==
    IF n < 10 THEN Digits[n + 1]
    ELSE NatToString(n \div 10) \o Digits[(n % 10) + 1]

to_string(n) == IF n < 0 THEN "-" \o NatToString(0 - n) ELSE NatToString(n)

(***************************************************************************)
(* util::Params: an ordered list of (name, value) string pairs.            *)
(***************************************************************************)
ParamsNew == <<>>

add_get_opt(p, key, opt) ==
    IF opt = None THEN p ELSE Append(p, <<key, to_string(opt[1])>>)

get_params(p) == p

(***************************************************************************)
(* Url.  path is Some(segments) for a relative scheme such as https; query *)
(* and fragment are optional strings.                                      *)
(***************************************************************************)
RECURSIVE Join(_, _)
\* the strings of `pieces`, concatenated, `sep` between two of them
Join(pieces, sep) ==
    IF pieces = <<>> THEN ""
    ELSE IF Len(pieces) = 1 THEN pieces[1]
    ELSE pieces[1] \o sep \o Join(Tail(pieces), sep)

\* index of the first piece of `text` that is in `marks`, or Len(text) + 1
FirstOf(text, marks) ==
    LET hits == {i \in 1..Len(text) : text[i] \in marks}
    IN  IF hits = {} THEN Len(text) + 1
        ELSE CHOOSE i \in hits : \A j \in hits : i <= j

RECURSIVE SplitPath(_)
\* the path segments of `text`: what lies between its "/" pieces
SplitPath(text) ==
    LET cut == FirstOf(text, {"/"})
    IN  IF cut > Len(text) THEN <<Join(text, "")>>
        ELSE <<Join(SubSeq(text, 1, cut - 1), "")>>
             \o SplitPath(SubSeq(text, cut + 1, Len(text)))

\* Url::parse of API_URL followed by `text`, given as pieces in which "/",
\* "?" and "#" stand alone.  API_URL is "https://api.telegram.org/bot".
UrlParse(text) ==
    LET hash  == FirstOf(text, {"#"})
        quest == FirstOf(text, {"?", "#"})
    IN  [scheme   |-> "https",
         host     |-> "api.telegram.org",
         path     |-> Some(SplitPath(<<"bot">> \o SubSeq(text, 1, quest - 1))),
         query    |-> IF quest < hash
                      THEN Some(Join(SubSeq(text, quest + 1, hash - 1), ""))
                      ELSE None,
         fragment |-> IF hash <= Len(text)
                      THEN Some(Join(SubSeq(text, hash + 1, Len(text)), ""))
                      ELSE None]

\* form_urlencoded::serialize: "k=v" joined by "&" (names and decimal values
\* hold no character that is escaped)
RECURSIVE SerializePairs(_)
SerializePairs(pairs) ==
    IF pairs = <<>> THEN ""
    ELSE IF Len(pairs) = 1 THEN pairs[1][1] \o "=" \o pairs[1][2]
    ELSE pairs[1][1] \o "=" \o pairs[1][2] \o "&" \o SerializePairs(Tail(pairs))

set_query_from_pairs(u, pairs) == [u EXCEPT !.query = Some(SerializePairs(pairs))]

\* faulty variant of ReplaceLast: the method name becomes a new last segment
ReplaceLastAppends(path, method) == Append(path, method)
\* path.last_mut().map(|last| *last = method.into())
ReplaceLast(path, method) ==
    IF path = <<>> THEN path ELSE [path EXCEPT ![Len(path)] = method]

\* faulty variant of SetMethod: a base without a last segment gets the method
\* name as its path
SetMethodForces(u, method) ==
    IF u.path = None \/ u.path = Some(<<>>) THEN [u EXCEPT !.path = Some(<<method>>)]
    ELSE [u EXCEPT !.path = Some(ReplaceLast(u.path[1], method))]
\* url.path_mut().map(...): the base's path with its last segment changed
SetMethod(u, method) ==
    IF u.path = None THEN u
    ELSE [u EXCEPT !.path = Some(ReplaceLast(u.path[1], method))]

\* send_request, lines 46-55: the URL of the request
RequestUrl(base, method, p) ==
    set_query_from_pairs(SetMethod(base, method), get_params(p))

(***************************************************************************)
(* Results: Ok(payload) or one variant of Error (lines 157-163).           *)
(***************************************************************************)
ErrorKinds == {"Http", "Io", "Json", "Api", "InvalidState"}

Ok(v) == [kind |-> "Ok", val |-> v]
Err(k, v) == [kind |-> k, val |-> v]

\* faulty variant of Classify: the arms test result and description before ok
ClassifyResultFirst(body) ==
    IF ~body.parses THEN Err("Json", "decoder error")
    ELSE IF body.ok /\ body.result # None THEN Ok(body.result[1])
    ELSE IF body.description # None THEN Err("Api", body.description[1])
    ELSE Err("InvalidState", "Invalid server response")
\* send_request, lines 73-89: json::decode of the body and the match on the
\* decoded Response {ok, result, description}
Classify(body) ==
    IF ~body.parses THEN Err("Json", "decoder error")
    ELSE IF ~body.ok /\ body.description # None
         THEN Err("Api", body.description[1])
    ELSE IF body.ok /\ body.result # None THEN Ok(body.result[1])
    ELSE Err("InvalidState", "Invalid server response")

(***************************************************************************)
(* What the environment supplies: tokens, arguments, response bodies.      *)
(***************************************************************************)
\* tokens given to Bot::new, as pieces: a plain one, one holding a "/", one
\* holding a "?"
Tokens == {<<"123:ABC">>, <<"1", "/", "A">>, <<"1", "?", "A">>}

\* update_ids the server sends: a negative one, and two with a gap between
UpdateIds == {-2, 0, 2}

Update(id) == [update_id |-> id]

RECURSIVE SeqsUpTo(_, _)
SeqsUpTo(S, n) ==
    IF n = 0 THEN {<<>>}
    ELSE LET shorter == SeqsUpTo(S, n - 1)
         IN  shorter \cup {Append(q, x) : q \in {r \in shorter : Len(r) = n - 1}, x \in S}

Batches == SeqsUpTo({Update(id) : id \in UpdateIds}, MaxBatch)

User == [id |-> 1]

Descriptions == {"Unauthorized", "Conflict"}

\* the payloads a body's result field can hold for a method
Payloads(method) == IF method = "getUpdates" THEN Batches ELSE {User}

\* the bodies read_to_string can produce for a method
Bodies(method) ==
    [parses : {TRUE}, ok : BOOLEAN,
     result : {None} \cup {Some(x) : x \in Payloads(method)},
     description : {None} \cup {Some(d) : d \in Descriptions}]
    \cup {[parses |-> FALSE, ok |-> FALSE, result |-> None, description |-> None]}

\* arguments client code passes for an Option<Integer>
OptArgs == {None, Some(-7), Some(0), Some(42)}
\* timeouts client code passes to long_poll
TimeoutArgs == {None, Some(5)}
\* (offset, limit, timeout) the handler passes when it calls get_updates
HandlerArgs == {<<Some(1), None, Some(0)>>}

(***************************************************************************)
(* The methods, up to the point where the request is handed to the         *)
(* transport.                                                              *)
(***************************************************************************)
\* send_request, lines 46-61, up to the call of req.send(), which performs the
\* HTTP GET; args are the arguments of the calling method
Request(method, p, args) ==
    [method |-> method, params |-> get_params(p),
     url |-> RequestUrl(url, method, p), stage |-> "send", args |-> args,
     steps |-> <<"send">>]

\* get_me, line 95
GetMeRequest == Request("getMe", ParamsNew, <<>>)

\* faulty variant of GetUpdatesParams: timeout is added before limit
GetUpdatesParamsSwapped(o, l, t) ==
    add_get_opt(add_get_opt(add_get_opt(ParamsNew, "offset", o), "timeout", t),
                "limit", l)
\* get_updates, lines 107-110
GetUpdatesParams(o, l, t) ==
    add_get_opt(add_get_opt(add_get_opt(ParamsNew, "offset", o), "limit", l),
                "timeout", t)

GetUpdatesRequest(o, l, t) ==
    Request("getUpdates", GetUpdatesParams(o, l, t), <<o, l, t>>)

\* faulty variants of AdvanceOffset: without the test, and one short
AdvanceOffsetUnguarded(off, id) == id + 1
AdvanceOffsetOffByOne(off, id) == IF id >= off THEN id ELSE off
\* long_poll, lines 142-144.  The update_ids of the model are far below the
\* largest Integer, so update_id + 1 does not overflow.
AdvanceOffset(off, id) == IF id >= off THEN id + 1 ELSE off

(***************************************************************************)
(* Init: Bot::new(token), lines 30-40.                                     *)
(***************************************************************************)
BotNew(token) == [offset |-> 0, url |-> UrlParse(token \o <<"/", "dummy">>)]

Init ==
    /\ \E token \in Tokens :
          /\ url = BotNew(token).url
          /\ offset = BotNew(token).offset
    /\ pc = "idle"
    /\ timeout = None
    /\ updates = <<>>
    /\ cur = None
    /\ req = None
    /\ ret = None
    /\ polls = 0
    /\ reached = {}
    /\ handled = {}
    /\ twice = {}
    /\ batchOffset = 0
    /\ batch = <<>>
    /\ timeoutArg = None

History == <<polls, reached, handled, twice, batchOffset, batch, timeoutArg>>

(***************************************************************************)
(* The one-shot methods, called by client code that owns the Bot.          *)
(***************************************************************************)
\* faulty variant of ComposeOnClone: the request URL is built in self.url
ComposeInPlace(r) ==
    /\ req' = r
    /\ url' = r.url
\* line 46: let mut url = self.url.clone(); the request r is built on the
\* clone, and self.url is left as it is
ComposeOnClone(r) ==
    /\ req' = r
    /\ url' = url

\* get_me, lines 93-96, up to req.send()
GetMe ==
    /\ pc = "idle"
    /\ ComposeOnClone(GetMeRequest)
    /\ pc' = "request"
    /\ ret' = None
    /\ UNCHANGED <<offset, timeout, updates, cur, History>>

\* faulty variant of GetUpdatesCall: an explicit offset is stored in the Bot
GetUpdatesCallStoresOffset(o, l, t) ==
    /\ ComposeOnClone(GetUpdatesRequest(o, l, t))
    /\ offset' = IF o = None THEN offset ELSE o[1]
\* get_updates, lines 103-114, up to req.send()
GetUpdatesCall(o, l, t) ==
    /\ ComposeOnClone(GetUpdatesRequest(o, l, t))
    /\ UNCHANGED offset

GetUpdates ==
    /\ pc = "idle"
    /\ \E o \in OptArgs, l \in OptArgs, t \in OptArgs : GetUpdatesCall(o, l, t)
    /\ pc' = "request"
    /\ ret' = None
    /\ UNCHANGED <<timeout, updates, cur, History>>

(***************************************************************************)
(* long_poll, lines 129-149.                                               *)
(***************************************************************************)
DefaultTimeout == 30

\* faulty variant of LongPoll: every invocation starts again from offset 0
LongPollResetsOffset ==
    /\ pc = "idle"
    /\ \E t \in TimeoutArgs :
          /\ timeout' = Some(IF t # None THEN t[1] ELSE DefaultTimeout)
          /\ timeoutArg' = Some(t)
    /\ pc' = "poll"
    /\ ret' = None
    /\ polls' = 0
    /\ handled' = {}
    /\ twice' = {}
    /\ offset' = 0
    /\ UNCHANGED <<url, updates, cur, req, reached, batchOffset, batch>>
\* line 133, then the loop is entered
LongPoll ==
    /\ pc = "idle"
    /\ \E t \in TimeoutArgs :
          /\ timeout' = Some(IF t # None THEN t[1] ELSE DefaultTimeout)
          /\ timeoutArg' = Some(t)
    /\ pc' = "poll"
    /\ ret' = None
    /\ polls' = 0
    /\ handled' = {}
    /\ twice' = {}
    /\ UNCHANGED <<url, offset, updates, cur, req, reached, batchOffset, batch>>

\* faulty variant of PollRequest: the offset is the one of the previous poll
PollRequestStale == GetUpdatesRequest(Some(batchOffset), None, timeout)
\* lines 137-138: get_updates(Some(self.offset), None, timeout)
PollRequest == GetUpdatesRequest(Some(offset), None, timeout)

\* lines 137-138, up to req.send()
Poll ==
    /\ pc = "poll"
    /\ polls < MaxPolls
    /\ ComposeOnClone(PollRequest)
    /\ pc' = "polling"
    /\ polls' = polls + 1
    /\ UNCHANGED <<offset, timeout, updates, cur, ret, reached, handled,
                   twice, batchOffset, batch, timeoutArg>>

\* faulty variant of PollResult: after an error the loop polls again
PollResultRetries(r) ==
    /\ req' = None
    /\ IF r.kind = "Ok"
       THEN /\ updates' = r.val
            /\ pc' = "for"
            /\ batchOffset' = offset
            /\ batch' = r.val
       ELSE /\ pc' = "poll"
            /\ UNCHANGED <<updates, batchOffset, batch>>
    /\ UNCHANGED <<url, offset, cur, polls, reached, handled, twice, ret, timeout,
                   timeoutArg>>
\* line 138: what try! does with the result of get_updates
PollResult(r) ==
    /\ req' = None
    /\ IF r.kind = "Ok"
       THEN /\ updates' = r.val
            /\ pc' = "for"
            /\ batchOffset' = offset
            /\ batch' = r.val
            /\ UNCHANGED <<ret, timeout, timeoutArg>>
       ELSE /\ pc' = "idle"
            /\ ret' = [op |-> "long_poll", kind |-> r.kind, val |-> r.val,
                        steps |-> r.steps]
            /\ timeout' = None
            /\ timeoutArg' = None
            /\ batch' = <<>>
            /\ UNCHANGED <<updates, batchOffset>>
    /\ UNCHANGED <<url, offset, cur, polls, reached, handled, twice>>

\* faulty variant of LoopEnd: long_poll returns Ok(()) after a batch
LoopEndReturns ==
    /\ pc' = "idle"
    /\ ret' = [op |-> "long_poll", kind |-> "Ok", val |-> <<>>,
                steps |-> <<"send", "read", "decode", "classify">>]
    /\ timeout' = None
\* line 148: the end of the loop body
LoopEnd ==
    /\ pc' = "poll"
    /\ UNCHANGED <<ret, timeout>>

\* faulty variant of NextUpdate: the for loop runs over the batch backwards
NextUpdateFromEnd(us) ==
    [u |-> us[Len(us)], rest |-> SubSeq(us, 1, Len(us) - 1)]
\* line 141: `for u in updates` takes the first update not yet reached
NextUpdate(us) == [u |-> Head(us), rest |-> Tail(us)]

\* lines 141-146: the for loop takes the next update, advances the offset and
\* calls the handler; with no update left the loop body ends
For ==
    /\ pc = "for"
    /\ IF updates = <<>>
       THEN /\ LoopEnd
            /\ UNCHANGED <<offset, updates, cur, reached, handled, twice>>
       ELSE LET u == NextUpdate(updates).u
            IN  /\ offset' = AdvanceOffset(offset, u.update_id)
                /\ reached' = reached \cup {u.update_id}
                /\ updates' = NextUpdate(updates).rest
                /\ cur' = Some(u)
                /\ handled' = handled \cup {u.update_id}
                /\ twice' = IF u.update_id \in handled
                            THEN twice \cup {u.update_id} ELSE twice
                /\ pc' = "handler"
                /\ UNCHANGED <<ret, timeout>>
    /\ UNCHANGED <<url, req, polls, batchOffset, batch, timeoutArg>>

(***************************************************************************)
(* The handler: code of the caller, run with &mut Bot and the update.  It  *)
(* returns, panics, or calls a one-shot method of the Bot (Bot.offset is   *)
(* private, so it cannot write it).  What its calls return goes to the     *)
(* handler and is not kept.                                                *)
(***************************************************************************)
HandlerReturn ==
    /\ pc = "handler"
    /\ pc' = "for"
    /\ cur' = None
    /\ UNCHANGED <<url, offset, timeout, updates, req, ret, History>>

HandlerPanic ==
    /\ pc = "handler"
    /\ pc' = "aborted"
    /\ UNCHANGED <<url, offset, timeout, updates, cur, req, ret, History>>

HandlerGetMe ==
    /\ pc = "handler"
    /\ ComposeOnClone(GetMeRequest)
    /\ pc' = "hrequest"
    /\ UNCHANGED <<offset, timeout, updates, cur, ret, History>>

HandlerGetUpdates ==
    /\ pc = "handler"
    /\ \E a \in HandlerArgs : GetUpdatesCall(a[1], a[2], a[3])
    /\ pc' = "hrequest"
    /\ UNCHANGED <<timeout, updates, cur, ret, History>>

(***************************************************************************)
(* send_request from req.send() on, lines 61-89, and the return to the     *)
(* caller.                                                                 *)
(***************************************************************************)
OpOf(method) == IF method = "getMe" THEN "get_me" ELSE "get_updates"

\* the result r of send_request, with the steps send_request took to it
Done(r, steps) == [kind |-> r.kind, val |-> r.val, steps |-> steps]

\* the result r of send_request is handed to whoever called the method
Return(r) ==
    CASE pc = "request" ->
            /\ pc' = "idle"
            /\ ret' = [op |-> OpOf(req.method), kind |-> r.kind, val |-> r.val,
                        steps |-> r.steps]
            /\ req' = None
            /\ UNCHANGED <<url, offset, timeout, updates, cur, History>>
      [] pc = "polling" -> PollResult(r)
      [] pc = "hrequest" ->
            /\ pc' = "handler"
            /\ req' = None
            /\ UNCHANGED <<url, offset, timeout, updates, cur, ret, History>>

InFlight == pc \in {"request", "polling", "hrequest"}

\* line 63
SendError == Err("Http", "hyper error")
\* faulty variant of ReadError: the read is unwrapped
ReadErrorPanics == Err("Panic", "io error")
\* line 69
ReadError == Err("Io", "io error")

\* faulty variant of OnSendError: the request is sent again
OnSendErrorRetries ==
    /\ req' = [req EXCEPT !.steps = Append(@, "send")]
    /\ UNCHANGED <<url, offset, pc, timeout, updates, cur, ret, History>>
\* line 63: return Err(Error::Http(e))
OnSendError == Return(Done(SendError, req.steps))

\* lines 61-64: req.send() fails
SendFail ==
    /\ InFlight /\ req.stage = "send"
    /\ OnSendError

\* lines 61-62 and 67-68: req.send() gives a response, read_to_string is called
SendOk ==
    /\ InFlight /\ req.stage = "send"
    /\ req' = [req EXCEPT !.stage = "read", !.steps = Append(@, "read")]
    /\ UNCHANGED <<url, offset, pc, timeout, updates, cur, ret, History>>

\* lines 67-70: read_to_string fails
ReadFail ==
    /\ InFlight /\ req.stage = "read"
    /\ Return(Done(ReadError, req.steps))

\* lines 73-89: json::decode is called on the body; the match on the decoded
\* Response is reached when decoding succeeded
DecodeSteps(r) ==
    IF r.kind = "Json" THEN <<"decode">> ELSE <<"decode", "classify">>

\* lines 67-89: read_to_string gives the body, which is decoded and classified
ReadOk ==
    /\ InFlight /\ req.stage = "read"
    /\ \E r \in {Classify(body) : body \in Bodies(req.method)} :
          Return(Done(r, req.steps \o DecodeSteps(r)))

Next ==
    \/ GetMe
    \/ GetUpdates
    \/ LongPoll
    \/ Poll
    \/ For
    \/ HandlerReturn
    \/ HandlerPanic
    \/ HandlerGetMe
    \/ HandlerGetUpdates
    \/ SendFail
    \/ SendOk
    \/ ReadFail
    \/ ReadOk

Spec == Init /\ [][Next]_vars

(***************************************************************************)
(* The envelope decoder on its own: send_request lines 73-89 applied to    *)
(* every body, parsable or not, with every combination of its fields.      *)
(***************************************************************************)
AllBodies(method) ==
    [parses : BOOLEAN, ok : BOOLEAN,
     result : {None} \cup {Some(x) : x \in Payloads(method)},
     description : {None} \cup {Some(d) : d \in Descriptions}]

InitEnvelope ==
    /\ \E token \in Tokens :
          /\ url = BotNew(token).url
          /\ offset = BotNew(token).offset
    /\ pc = "decode"
    /\ \E method \in {"getMe", "getUpdates"} :
          \E b \in AllBodies(method) :
             req = [method |-> method, stage |-> "decode", body |-> b]
    /\ timeout = None
    /\ updates = <<>>
    /\ cur = None
    /\ ret = None
    /\ polls = 0
    /\ reached = {}
    /\ handled = {}
    /\ twice = {}
    /\ batchOffset = 0
    /\ batch = <<>>
    /\ timeoutArg = None

Decode ==
    /\ pc = "decode"
    /\ ret' = Classify(req.body)
    /\ pc' = "decoded"
    /\ UNCHANGED <<url, offset, timeout, updates, cur, req, History>>

SpecEnvelope == InitEnvelope /\ [][Decode]_vars

(***************************************************************************)
(* The endpoint composer (lines 46-55) as a function of the base it is     *)
(* given: the one-shot methods run on a Bot whose url is any value of the  *)
(* Url type, including the two without a last path segment: path_mut()     *)
(* gives None (a scheme without a hierarchical path), or a path with no    *)
(* segment.  Bot::new builds neither: its url always has the segment       *)
(* "dummy" (line 31).                                                      *)
(***************************************************************************)
NoPathUrl ==
    [scheme |-> "data", host |-> "", path |-> None, query |-> None,
     fragment |-> None]

EmptyPathUrl ==
    [scheme |-> "https", host |-> "api.telegram.org", path |-> Some(<<>>),
     query |-> None, fragment |-> None]

Bases == {NoPathUrl, EmptyPathUrl} \cup {BotNew(token).url : token \in Tokens}

InitCompose ==
    /\ url \in Bases
    /\ offset = 0
    /\ pc = "idle"
    /\ timeout = None
    /\ updates = <<>>
    /\ cur = None
    /\ req = None
    /\ ret = None
    /\ polls = 0
    /\ reached = {}
    /\ handled = {}
    /\ twice = {}
    /\ batchOffset = 0
    /\ batch = <<>>
    /\ timeoutArg = None

NextCompose ==
    \/ GetMe
    \/ GetUpdates
    \/ SendFail
    \/ SendOk
    \/ ReadFail
    \/ ReadOk

SpecCompose == InitCompose /\ [][NextCompose]_vars

(***************************************************************************)
(* Properties.                                                             *)
(***************************************************************************)
Max(S) == CHOOSE x \in S : \A y \in S : y <= x

LongPollPcs == {"poll", "polling", "for", "handler", "hrequest"}

HandlerRuns == pc \in {"handler", "hrequest"}

\* C1: within one long_poll invocation the handler is not invoked a second
\* time for an update_id: an update whose update_id is below the offset held
\* when its batch was received, and which the handler already got in this
\* invocation, is skipped.
C1_NoDoubleDispatch ==
    (HandlerRuns /\ cur[1].update_id >= 0 /\ cur[1].update_id < batchOffset)
        => cur[1].update_id \notin twice

\* C2: offset is 0 at construction, never decreases, and while every
\* update_id reached is non-negative it is 0 when the for loop has reached no
\* update and 1 + the largest update_id reached otherwise.
C2_OffsetIsOnePastMax ==
    /\ offset = 0
    /\ []((\A id \in reached : id >= 0)
            => offset = IF reached = {} THEN 0 ELSE 1 + Max(reached))
    /\ [][offset' >= offset]_vars

C2_Witness ==
    /\ reached = {0, 2}
    /\ twice = {0}
    /\ offset = 3
    /\ polls = 2

\* C3: the classification of a body is one of four outcomes, decided by
\* (parses, ok, result present, description present): not parsable -> Json;
\* ok = false with a description -> Api with that description; ok = true with
\* a result -> Ok with that result; anything else -> InvalidState with the
\* fixed message.
C3_Classification ==
    pc = "decoded" =>
        LET b == req.body
        IN  /\ ret.kind \in {"Json", "Api", "Ok", "InvalidState"}
            /\ ret.kind = "Json" <=> ~b.parses
            /\ ret.kind = "Api" <=> (b.parses /\ ~b.ok /\ b.description # None)
            /\ ret.kind = "Ok" <=> (b.parses /\ b.ok /\ b.result # None)
            /\ ret.kind = "InvalidState" <=>
                  /\ b.parses
                  /\ \/ (~b.ok /\ b.description = None)
                     \/ (b.ok /\ b.result = None)
            /\ ret.kind = "Api" => ret.val = b.description[1]
            /\ ret.kind = "Ok" => ret.val = b.result[1]
            /\ ret.kind = "InvalidState" => ret.val = "Invalid server response"

C3_Witness ==
    /\ pc = "decoded"
    /\ req.body.parses /\ ~req.body.ok
    /\ req.body.result # None
    /\ req.body.description = Some("Unauthorized")
    /\ ret = Err("Api", "Unauthorized")

\* C4: a poll request of long_poll that fails ends long_poll in that step:
\* the error of the failing stage is returned (Http for the send; Io, Json,
\* Api or InvalidState after it), no request stays in flight, the handler is
\* not running, and offset and the dispatch history are as before.
C4_FirstErrorEndsLongPoll ==
    [][(pc = "polling" /\ pc' \notin {"polling", "for"}) =>
          /\ pc' = "idle"
          /\ req' = None
          /\ cur' = None
          /\ ret' # None
          /\ ret'.op = "long_poll"
          /\ ret'.kind \in (IF req.stage = "send" THEN {"Http"}
                            ELSE {"Io", "Json", "Api", "InvalidState"})
          /\ offset' = offset
          /\ polls' = polls
          /\ handled' = handled
          /\ twice' = twice]_vars

C4_Witness ==
    /\ pc = "idle"
    /\ ret # None
    /\ ret.op = "long_poll"
    /\ ret.kind = "Api"
    /\ polls = 2
    /\ handled = {0, 2}
    /\ offset = 3

\* C5: long_poll never returns a success value.  It is left only from a poll
\* request, with an error; when the batch is used up (an empty batch too) the
\* loop goes back to its head, and from there the next step is a getUpdates
\* request.
C5_OnlyAPollErrorEndsLongPoll ==
    [][/\ (pc \in LongPollPcs /\ pc' \notin LongPollPcs \cup {"aborted"}) =>
             /\ pc = "polling"
             /\ pc' = "idle"
             /\ ret'.op = "long_poll"
             /\ ret'.kind \in ErrorKinds
       /\ (pc = "for" /\ updates = <<>>) => pc' = "poll"
       /\ pc = "poll" => (pc' = "polling" /\ req'.method = "getUpdates")
       /\ (ret' # None /\ ret'.op = "long_poll") => ret'.kind # "Ok"]_vars

C5_Witness ==
    /\ pc = "polling"
    /\ polls = 2
    /\ reached = {}

Decimal(n) ==
    CASE n = -7 -> "-7"
      [] n = 0 -> "0"
      [] n = 1 -> "1"
      [] n = 2 -> "2"
      [] n = 3 -> "3"
      [] n = 5 -> "5"
      [] n = 30 -> "30"
      [] n = 42 -> "42"

\* C8: the parameters of a getUpdates request are exactly the arguments that
\* are present, in the order offset, limit, timeout, each with the decimal
\* string of its value.
C8_GetUpdatesParams ==
    (req # None /\ req.method = "getUpdates") =>
        LET names == <<"offset", "limit", "timeout">>
            present == {i \in 1..3 : req.args[i] # None}
            rank(i) == Cardinality({j \in present : j <= i})
        IN  /\ Len(req.params) = Cardinality(present)
            /\ \A i \in present :
                  req.params[rank(i)] = <<names[i], Decimal(req.args[i][1])>>

C8_Witness ==
    /\ req # None
    /\ req.method = "getUpdates"
    /\ req.args = <<Some(42), None, Some(-7)>>
    /\ req.params = <<<<"offset", "42">>, <<"timeout", "-7">>>>

\* C9: offset changes only in the step of long_poll's for loop that takes an
\* update; no step of get_me or get_updates, called by client code or by the
\* handler, with or without an explicit offset, changes it.
C9_OnlyDispatchWritesOffset ==
    [][offset' # offset => (pc = "for" /\ pc' = "handler")]_vars

C9_Witness ==
    /\ pc = "hrequest"
    /\ req.method = "getUpdates"
    /\ req.args[1] = Some(1)
    /\ req.stage = "read"
    /\ offset = 3

C11_BatchInOrderThenPoll ==
    /\ [](pc \in {"for", "handler", "hrequest", "aborted"} =>
            LET done == Len(batch) - Len(updates)
            IN  /\ done >= 0
                /\ updates = SubSeq(batch, done + 1, Len(batch))
                /\ pc # "for" => (done >= 1 /\ cur = Some(batch[done]))
                /\ pc = "for" => cur = None)
    /\ [](pc = "polling" => (cur = None /\ updates = <<>>))
    /\ [][/\ (pc' = "polling" /\ pc # "polling") =>
                (pc = "poll" /\ updates = <<>> /\ cur = None)
          /\ pc' = "poll" =>
                (pc = "idle" \/ (pc = "for" /\ updates = <<>> /\ cur = None))
          /\ batch' # batch =>
                (pc = "polling" /\ (pc' = "for" \/ (pc' = "idle" /\ batch' = <<>>)))]_vars

C11_Witness ==
    /\ pc = "handler"
    /\ polls = 2
    /\ batch = <<Update(2), Update(0)>>
    /\ cur = Some(Update(0))
    /\ updates = <<>>
    /\ handled = {-2, 0, 2}

\* C12: a getUpdates request of long_poll carries the offset the Bot holds
\* when it is made (0 for the first poll of a Bot that has reached no update)
\* and the timeout the caller passed, or 30 when the caller passed none, the
\* same in every iteration, and no limit; the offset of a poll is not below
\* the offset of the poll before it.
C12_PollArguments ==
    /\ [](pc \in LongPollPcs =>
            /\ timeoutArg # None
            /\ timeoutArg[1] # None => timeout = timeoutArg[1]
            /\ timeoutArg[1] = None => timeout = Some(30))
    /\ [](pc = "polling" =>
            /\ req.method = "getUpdates"
            /\ req.args = <<Some(offset), None, timeout>>
            /\ req.params = <<<<"offset", Decimal(offset)>>,
                              <<"timeout", Decimal(timeout[1])>>>>
            /\ reached = {} => req.args[1] = Some(0))
    /\ [][/\ (pc \in LongPollPcs /\ pc' \in LongPollPcs) =>
                (timeout' = timeout /\ timeoutArg' = timeoutArg)
          /\ (pc = "poll" /\ pc' = "polling" /\ polls >= 1) =>
                req'.args[1][1] >= batchOffset]_vars

C12_Witness ==
    /\ pc = "polling"
    /\ polls = 2
    /\ timeoutArg = Some(None)
    /\ batchOffset = 1
    /\ req.params = <<<<"offset", "3">>, <<"timeout", "30">>>>

\* C13: a method call performs one HTTP GET and does not retry; the steps of
\* send_request come in the order send, read, decode, classify, and a failure
\* ends them: a send failure (Http) after the send alone, a read failure (Io)
\* before any decoding, a decode failure (Json) before the classification;
\* Api, InvalidState and Ok come from the classification of a body that was
\* read and decoded.
C13_OneGetFixedOrder ==
    /\ (InFlight /\ req.stage = "send") => req.steps = <<"send">>
    /\ (InFlight /\ req.stage = "read") => req.steps = <<"send", "read">>
    /\ ret # None =>
          /\ Cardinality({i \in 1..Len(ret.steps) : ret.steps[i] = "send"}) = 1
          /\ ret.kind = "Http" <=> ret.steps = <<"send">>
          /\ ret.kind = "Io" <=> ret.steps = <<"send", "read">>
          /\ ret.kind = "Json" <=> ret.steps = <<"send", "read", "decode">>
          /\ ret.kind \in {"Api", "InvalidState", "Ok"}
                <=> ret.steps = <<"send", "read", "decode", "classify">>

C13_Witness ==
    /\ pc = "idle"
    /\ ret # None
    /\ ret.op = "long_poll"
    /\ ret.kind = "Io"
    /\ ret.steps = <<"send", "read">>
    /\ polls = 2

\* C14: on a base without path segments the composer does not fail: the
\* request is made, its path is the base's path, unmodified and without the
\* method name, and its query holds the request's parameters.
C14_NoSegmentBase ==
    (InFlight /\ url \in {NoPathUrl, EmptyPathUrl}) =>
        /\ req.url.path = url.path
        /\ req.url.path # None =>
              \A i \in 1..Len(req.url.path[1]) : req.url.path[1][i] # req.method
        /\ req.url.query = Some(SerializePairs(req.params))
        /\ req.url = [url EXCEPT !.query = req.url.query]
        /\ req.steps[1] = "send"

C14_Witness ==
    /\ pc = "request"
    /\ url = EmptyPathUrl
    /\ req.method = "getUpdates"
    /\ req.stage = "read"
    /\ req.url.path = Some(<<>>)
    /\ req.url.query = Some("offset=42&timeout=0")

\* C15: no request changes the base endpoint the Bot holds: it stays the URL
\* Bot::new built, and every request URL is composed from that base, the
\* method and the parameters of this request alone: it has as many path
\* segments as the base, and its query holds this request's pairs and nothing
\* of an earlier request.
C15_BaseNeverModified ==
    /\ [][url' = url]_vars
    /\ [](\E token \in Tokens :
            /\ url = BotNew(token).url
            /\ InFlight =>
                  /\ req.url = set_query_from_pairs(
                                   SetMethod(BotNew(token).url, req.method),
                                   req.params)
                  /\ Len(req.url.path[1]) = Len(BotNew(token).url.path[1])
                  /\ req.url.query = Some(SerializePairs(req.params)))

C15_Witness ==
    /\ pc = "hrequest"
    /\ polls = 2
    /\ req.method = "getMe"
    /\ req.url.path = Some(<<"bot1", "A", "getMe">>)
    /\ req.url.query = Some("")
    /\ url = BotNew(<<"1", "/", "A">>).url

\* C16: offset is a field of the Bot and outlives a long_poll invocation:
\* neither the return of long_poll with an error nor the next call of
\* long_poll changes it, so the first poll of a later invocation asks for the
\* offset the earlier ones reached, which (while every update_id reached is
\* non-negative) is 1 + the largest update_id reached in any invocation, and
\* not 0.
C16_OffsetSurvivesLongPoll ==
    /\ [][/\ (pc \in LongPollPcs /\ pc' = "idle") =>
                (ret'.kind \in ErrorKinds /\ offset' = offset)
          /\ (pc = "idle" /\ pc' = "poll") =>
                (offset' = offset /\ reached' = reached)]_vars
    /\ []((pc = "polling" /\ polls = 1) =>
            /\ req.args[1] = Some(offset)
            /\ (reached # {} /\ \A id \in reached : id >= 0) =>
                  (req.args[1] = Some(1 + Max(reached)) /\ req.args[1] # Some(0)))
    /\ []((pc = "idle" /\ ret # None /\ ret.op = "long_poll"
             /\ reached # {} /\ \A id \in reached : id >= 0) =>
            offset = 1 + Max(reached))

C16_Witness ==
    /\ pc = "polling"
    /\ polls = 1
    /\ reached = {0, 2}
    /\ handled = {}
    /\ offset = 3
    /\ req.params = <<<<"offset", "3">>, <<"timeout", "5">>>>

====
